---- MODULE Spec2Model ----
(***************************************************************************)
(* Authentication and session-lifecycle core of TrendPulse                 *)
(* (backend/app/services/auth_service.py, core/security.py, core/deps.py,  *)
(* api/routes/auth.py, models/user.py).                                    *)
(*                                                                         *)
(* The persisted store is four tables (users, sessions, password_resets,   *)
(* email_verifications).  Requests run in slots.  register_user,           *)
(* reset_password and verify_email select, await and commit later, so each *)
(* is a read step followed by a commit step that other requests can come   *)
(* between; the commit writes by primary key under the store's default     *)
(* isolation (READ COMMITTED) and is refused only by a unique constraint.  *)
(* The other handlers are taken in one step.  A handler that raises has    *)
(* written nothing: rows are flushed only by commit and get_db rolls back. *)
(* Time is the UTC clock in whole seconds, as python-jose encodes it, and  *)
(* a timestamp read back from the store compares as the value written.     *)
(* The email sender is a mock that prints; outbox keeps what it was given. *)
(* Every request holds the AsyncSession get_db yields from its first step  *)
(* until get_db's exit has run after its last.                             *)
(***************************************************************************)
EXTENDS Integers, Sequences, FiniteSets, TLC

(***************************************************************************)
(* Bounds of the model                                                     *)
(***************************************************************************)
MaxInFlight == 2      \* request slots that can be in flight together
MaxTicks == 1         \* clock advances in one behaviour
MaxResets == 1        \* password_resets rows created in one behaviour
MaxIssued == 4        \* JWTs issued in one behaviour
MaxResends == 1       \* verification tokens resent to one email

(***************************************************************************)
(* Program constants                                                       *)
(***************************************************************************)
ACCESS_TOKEN_EXPIRE_MINUTES == 15
REFRESH_TOKEN_EXPIRE_DAYS == 7
REMEMBER_ME_DAYS == 30
RESET_EXPIRE_HOURS == 1
VERIFICATION_EXPIRE_HOURS == 24
NULL == -1            \* a NULL timestamp column / a missing claim
JWT_HEADER == "eyJhbGciOiJIUzI1NiIsInR5cCI6IkpXVCJ9"

timedelta(days, hours, minutes) == days * 86400 + hours * 3600 + minutes * 60

Procs == 1..MaxInFlight
Emails == {"a@x.com", "o@x.com"}
Passwords == {"Passw0rd1", "Passw0rd2"}
\* offsets of the server's local time zone from UTC, in seconds
UtcOffsets == {-3600, 0, 3600}

VARIABLES
    users,                \* table users
    sessions,             \* table sessions
    password_resets,      \* table password_resets
    email_verifications,  \* table email_verifications
    now,                  \* datetime.utcnow(), whole seconds
    ticks,                \* number of clock advances so far
    utcoffset,            \* local time zone offset of the server
    issued,               \* JWTs handed to clients so far
    outbox,               \* emails handed to the (mock) email sender so far
    db,                   \* per slot: the AsyncSession get_db yielded
    pc,                   \* per slot: position of the request it runs
    loc,                  \* per slot: locals of the running handler
    res                   \* per slot: last response sent to the caller

vars == <<users, sessions, password_resets, email_verifications, now, ticks,
          utcoffset, issued, outbox, db, pc, loc, res>>

store == <<users, sessions, password_resets, email_verifications>>

(***************************************************************************)
(* Password Hasher (core/security.py)                                      *)
(***************************************************************************)
NoHash == ""

hash_password(password) == "$argon2id$" \o password

verify_password(plain_password, hashed_password) ==
    hashed_password = "$argon2id$" \o plain_password

(***************************************************************************)
(* Token Codec (core/security.py, python-jose)                             *)
(*                                                                         *)
(* A compact JWT is kept as its claims plus the party that signed it.      *)
(***************************************************************************)
NoJWT == [sub |-> 0, email |-> "", exp |-> NULL, iat |-> NULL,
          type |-> "none", sig |-> "none"]

None == [none |-> TRUE]

create_access_token(data, expires_delta) ==
    LET expire == IF expires_delta # NULL
                  THEN now + expires_delta
                  ELSE now + timedelta(0, 0, ACCESS_TOKEN_EXPIRE_MINUTES)
    IN  [sub |-> data.sub, email |-> data.email, exp |-> expire, iat |-> now,
         type |-> "access", sig |-> "server"]

create_refresh_token(data, expires_delta) ==
    LET expire == IF expires_delta # NULL
                  THEN now + expires_delta
                  ELSE now + timedelta(REFRESH_TOKEN_EXPIRE_DAYS, 0, 0)
    IN  [sub |-> data.sub, email |-> data.email, exp |-> expire, iat |-> now,
         type |-> "refresh", sig |-> "server"]

\* jose.jwt.decode: JWTError on a bad signature, ExpiredSignatureError (a
\* JWTError) when exp < now; TRUE when the payload is returned.
jwt_decode(token) ==
    /\ token.sig = "server"
    /\ ~(token.exp # NULL /\ token.exp < now)

\* datetime.fromtimestamp(ts): the naive local wall-clock time of ts
fromtimestamp(ts) == ts + utcoffset

payload_of(token) ==
    [sub |-> token.sub, email |-> token.email, exp |-> token.exp,
     iat |-> token.iat, type |-> token.type]

\* verify_token without the comparison of the type claim
verify_token_untyped(token, token_type) ==
    IF ~jwt_decode(token) THEN None
    ELSE IF token.exp = NULL \/ fromtimestamp(token.exp) < now THEN None
    ELSE payload_of(token)

\* verify_token turning down the tokens of a user who has no sessions row
verify_token_revocable(token, token_type) ==
    IF \A s \in sessions : s.user_id # token.sub THEN None
    ELSE IF ~jwt_decode(token) THEN None
    ELSE IF token.type # token_type THEN None
    ELSE IF token.exp = NULL \/ fromtimestamp(token.exp) < now THEN None
    ELSE payload_of(token)

verify_token(token, token_type) ==
    IF ~jwt_decode(token) THEN None
    ELSE IF token.type # token_type THEN None
    ELSE IF token.exp = NULL \/ fromtimestamp(token.exp) < now THEN None
    ELSE payload_of(token)

\* token[:100]: the 36 characters of the encoded header, the dot, and 63
\* characters of the encoded payload, i.e. its first 47 bytes
\* {"sub":"<36-character uuid>"," -- the header and the sub claim only.
Truncate100(token) == [header |-> JWT_HEADER, sub |-> token.sub]

\* tokens a client can present that the server never signed
ForgedTokens ==
    {[sub |-> 1, email |-> "a@x.com", exp |-> timedelta(REMEMBER_ME_DAYS, 0, 0),
      iat |-> 0, type |-> ty, sig |-> "forged"] : ty \in {"access", "refresh"}}

(***************************************************************************)
(* Responses and handler locals                                            *)
(***************************************************************************)
Response(op, status, detail, email, token) ==
    [op |-> op, status |-> status, detail |-> detail, email |-> email,
     token |-> token, user_id |-> 0, access_token |-> NoJWT,
     refresh_token |-> NoJWT, expires_in |-> 0, remember_me |-> FALSE,
     raised |-> ""]

NoResponse == Response("none", 0, "", "", 0)

NoLocals == [email |-> "", user_id |-> 0, password_hash |-> NoHash,
             token |-> 0, at |-> NULL]

\* what send_verification_email / send_password_reset_email are called with
Mail(kind, email, token) == [kind |-> kind, to |-> email, token |-> token]

(***************************************************************************)
(* get_db (core/deps.py): the session of a request                         *)
(***************************************************************************)
\* how a handler ends, by the status of its response: it returns, it raises
\* an HTTPException (a business error), or another exception leaves it
outcome_of(status) ==
    IF status < 400 THEN "return"
    ELSE IF status < 500 THEN "HTTPException"
    ELSE "Exception"

\* get_db closing the session only after a handler that returned
get_db_exit_unguarded(outcome) ==
    IF outcome = "return" THEN <<"commit", "close", "close">> ELSE <<"rollback">>

\* lines 37-45: what get_db calls on the session once the handler has ended:
\* commit or rollback, close in the finally clause, and close once more as
\* the "async with" block is left
get_db_exit(outcome) ==
    IF outcome = "return" THEN <<"commit", "close", "close">>
    ELSE <<"rollback", "close", "close">>

\* session.close(): an open session releases its connection, a closed one
\* has nothing to release
session_close(s) ==
    IF s.open THEN [open |-> FALSE, releases |-> s.releases + 1] ELSE s

RECURSIVE session_calls(_, _)
session_calls(s, calls) ==
    IF calls = <<>> THEN s
    ELSE session_calls(IF Head(calls) = "close" THEN session_close(s) ELSE s,
                       Tail(calls))

\* the session a request opened, after these calls
session_after(calls) ==
    LET s == session_calls([open |-> TRUE, releases |-> 0], calls)
    IN  IF s.open THEN "open"
        ELSE IF s.releases = 1 THEN "closed"
        ELSE "released twice"

\* lines 37-38: the session of the request in slot p is open while its
\* handler runs and gets the calls of get_db's exit when the handler ends
GetDb(p) ==
    db' = [db EXCEPT ![p] =
              IF pc'[p] = "idle"
              THEN session_after(get_db_exit(outcome_of(res'[p].status)))
              ELSE "open"]

\* an arriving request is served in the lowest free slot
FreeSlot(p) == pc[p] = "idle" /\ \A q \in Procs : q < p => pc[q] # "idle"

UserByEmail(email) == {u \in users : u.email = email}
UserById(id) == {u \in users : u.id = id}

\* uuid.uuid4() / secrets.token_urlsafe(): a value no row has yet
NewUserId == Cardinality(users) + 1
NewVerificationToken == Cardinality(email_verifications) + 1
NewResetToken == Cardinality(password_resets) + 1
NewSessionId == CHOOSE i \in 1..(Cardinality(sessions) + 1) :
                    \A s \in sessions : s.id # i

\* an account created through the (unimplemented) OAuth path: no password
OAuthUser == [id |-> 1, email |-> "o@x.com", password_hash |-> NoHash,
              email_verified |-> TRUE, email_verified_at |-> 0,
              created_at |-> 0, updated_at |-> 0, last_login_at |-> NULL]

Init ==
    /\ users \in {{}, {OAuthUser}}
    /\ sessions = {}
    /\ password_resets = {}
    /\ email_verifications = {}
    /\ now = 0
    /\ ticks = 0
    /\ utcoffset \in UtcOffsets
    /\ issued = {}
    /\ outbox = {}
    /\ db = [p \in Procs |-> "closed"]
    /\ pc = [p \in Procs |-> "idle"]
    /\ loc = [p \in Procs |-> NoLocals]
    /\ res = [p \in Procs |-> NoResponse]

(***************************************************************************)
(* register_user (services/auth_service.py) behind POST /register          *)
(***************************************************************************)
\* the pre-check finding no row
existing_user_none(email) == {}

\* lines 60-62: select(User).where(User.email == email)
existing_user(email) == UserByEmail(email)

\* lines 59-91: the existence pre-check and the construction of the rows
RegisterBegin(p, email, password) ==
    /\ FreeSlot(p)
    /\ IF existing_user(email) # {}
       THEN /\ res' = [res EXCEPT ![p] =
                  [Response("register", 400, "Email already registered", email, 0)
                   EXCEPT !.raised = "pre-check"]]
            /\ UNCHANGED <<pc, loc>>
       ELSE /\ pc' = [pc EXCEPT ![p] = "register"]
            /\ loc' = [loc EXCEPT ![p] =
                  [NoLocals EXCEPT !.email = email,
                                   !.password_hash = hash_password(password),
                                   !.at = now]]
            /\ res' = [res EXCEPT ![p] = Response("register", 0, "", email, 0)]
    /\ UNCHANGED <<store, now, ticks, utcoffset, issued, outbox>>
    /\ GetDb(p)

\* a session that writes each pending change as it is made
db_commit_autocommit(before, after, raised) == after

\* db.commit() of the pending changes to a table: all of them or, when the
\* commit raises, none (the rollback of register_user or of get_db)
db_commit(before, after, raised) == IF raised THEN before ELSE after

\* users.email without its unique constraint
EmailUniqueViolation_off(email) == FALSE

\* the unique constraint on users.email (models/user.py)
EmailUniqueViolation(email) == UserByEmail(email) # {}

\* the email sent before the outcome of the commit is known
verification_mail_unconditional(committed, mail) == {mail}

\* lines 93-101: send_verification_email is reached only when the commit
\* did not raise
verification_mail(committed, mail) == IF committed THEN {mail} ELSE {}

\* lines 93-103: the commit inserts both rows or, on IntegrityError, none
RegisterCommit(p) ==
    /\ pc[p] = "register"
    /\ LET l == loc[p]
           user == [id |-> NewUserId, email |-> l.email,
                    password_hash |-> l.password_hash,
                    email_verified |-> FALSE, email_verified_at |-> NULL,
                    created_at |-> l.at, updated_at |-> l.at,
                    last_login_at |-> NULL]
           email_verification ==
                   [token |-> NewVerificationToken, email |-> l.email,
                    expires_at |-> l.at + timedelta(0, VERIFICATION_EXPIRE_HOURS, 0),
                    verified_at |-> NULL, created_at |-> l.at]
       IN  IF EmailUniqueViolation(l.email)
           THEN /\ res' = [res EXCEPT ![p] =
                      [Response("register", 400, "Email already registered",
                                l.email, 0)
                       EXCEPT !.raised = "commit"]]
                /\ users' = db_commit(users, users \cup {user}, TRUE)
                /\ email_verifications' =
                      db_commit(email_verifications,
                                email_verifications \cup {email_verification}, TRUE)
                /\ outbox' = outbox \cup verification_mail(FALSE,
                      Mail("verification", l.email, email_verification.token))
           ELSE /\ users' = db_commit(users, users \cup {user}, FALSE)
                /\ email_verifications' =
                      db_commit(email_verifications,
                                email_verifications \cup {email_verification}, FALSE)
                \* line 101: after the commit
                /\ outbox' = outbox \cup verification_mail(TRUE,
                      Mail("verification", l.email, email_verification.token))
                /\ res' = [res EXCEPT ![p] =
                      [Response("register", 201, "", l.email,
                                email_verification.token)
                       EXCEPT !.user_id = user.id]]
    /\ pc' = [pc EXCEPT ![p] = "idle"]
    /\ loc' = [loc EXCEPT ![p] = NoLocals]
    /\ UNCHANGED <<sessions, password_resets, now, ticks, utcoffset, issued>>
    /\ GetDb(p)

\* lines 93-101 when send_verification_email raises: the rows are committed,
\* the exception leaves register_user, get_db rolls back nothing and the
\* request fails
RegisterCommitDispatchFailed(p) ==
    /\ pc[p] = "register"
    /\ ~EmailUniqueViolation(loc[p].email)
    /\ LET l == loc[p]
           user == [id |-> NewUserId, email |-> l.email,
                    password_hash |-> l.password_hash,
                    email_verified |-> FALSE, email_verified_at |-> NULL,
                    created_at |-> l.at, updated_at |-> l.at,
                    last_login_at |-> NULL]
           email_verification ==
                   [token |-> NewVerificationToken, email |-> l.email,
                    expires_at |-> l.at + timedelta(0, VERIFICATION_EXPIRE_HOURS, 0),
                    verified_at |-> NULL, created_at |-> l.at]
       IN  /\ users' = users \cup {user}
           /\ email_verifications' = email_verifications \cup {email_verification}
           /\ res' = [res EXCEPT ![p] =
                 [Response("register", 500, "Internal Server Error", l.email,
                           email_verification.token)
                  EXCEPT !.user_id = user.id, !.raised = "dispatch"]]
    /\ pc' = [pc EXCEPT ![p] = "idle"]
    /\ loc' = [loc EXCEPT ![p] = NoLocals]
    /\ UNCHANGED <<sessions, password_resets, now, ticks, utcoffset, issued,
                   outbox>>
    /\ GetDb(p)

(***************************************************************************)
(* login_user behind POST /login                                           *)
(***************************************************************************)
\* the unique constraints on sessions.token and sessions.refresh_token
SessionUniqueViolation(session) ==
    \E s \in sessions : \/ s.token = session.token
                        \/ s.refresh_token = session.refresh_token

\* remember_me ignored
refresh_expires_default(remember_me) ==
    timedelta(REFRESH_TOKEN_EXPIRE_DAYS, 0, 0)

refresh_expires_of(remember_me) ==
    IF remember_me THEN timedelta(REMEMBER_ME_DAYS, 0, 0)
    ELSE timedelta(REFRESH_TOKEN_EXPIRE_DAYS, 0, 0)

\* the row's expiry taken from the configured lifetime, whatever was asked
session_expires_at_default(refresh_expires) ==
    now + timedelta(REFRESH_TOKEN_EXPIRE_DAYS, 0, 0)

\* line 167: expires_at = datetime.utcnow() + refresh_expires
session_expires_at(refresh_expires) == now + refresh_expires

\* login_user telling an unknown email from a wrong password
login_error_enumerating(email, password) ==
    IF UserByEmail(email) = {} THEN "Email not registered"
    ELSE LET user == CHOOSE u \in users : u.email = email
         IN  IF user.password_hash = NoHash THEN "Invalid email or password"
             ELSE IF ~verify_password(password, user.password_hash)
             THEN "Invalid email or password"
             ELSE ""

\* lines 131-141: the ValueError message of login_user, "" when the
\* credentials are accepted
login_error(email, password) ==
    IF UserByEmail(email) = {} THEN "Invalid email or password"
    ELSE LET user == CHOOSE u \in users : u.email = email
         IN  IF user.password_hash = NoHash THEN "Invalid email or password"
             ELSE IF ~verify_password(password, user.password_hash)
             THEN "Invalid email or password"
             ELSE ""

Login(p, email, password, remember_me) ==
    /\ FreeSlot(p)
    /\ Cardinality(issued) + 2 <= MaxIssued
    /\ IF login_error(email, password) # ""
       THEN /\ res' = [res EXCEPT ![p] =
                  [Response("login", 401, login_error(email, password), email, 0)
                   EXCEPT !.remember_me = remember_me]]
            /\ UNCHANGED <<users, sessions, issued>>
       ELSE LET user == CHOOSE u \in users : u.email = email
                token_data == [sub |-> user.id, email |-> user.email]
                access_token == create_access_token(token_data, NULL)
                refresh_expires == refresh_expires_of(remember_me)
                refresh_token == create_refresh_token(token_data, refresh_expires)
                session == [id |-> NewSessionId, user_id |-> user.id,
                            token |-> Truncate100(access_token),
                            refresh_token |-> Truncate100(refresh_token),
                            expires_at |-> session_expires_at(refresh_expires),
                            created_at |-> now]
            IN  IF SessionUniqueViolation(session)
                THEN \* IntegrityError leaves login_user; get_db rolls back
                     /\ res' = [res EXCEPT ![p] =
                           [Response("login", 500, "Internal Server Error", email, 0)
                            EXCEPT !.remember_me = remember_me]]
                     /\ sessions' = db_commit(sessions, sessions \cup {session}, TRUE)
                     /\ users' = db_commit(users,
                                   (users \ {user}) \cup
                                      {[user EXCEPT !.last_login_at = now]}, TRUE)
                     /\ UNCHANGED issued
                ELSE /\ sessions' = db_commit(sessions, sessions \cup {session}, FALSE)
                     /\ users' = db_commit(users,
                                   (users \ {user}) \cup
                                      {[user EXCEPT !.last_login_at = now]}, FALSE)
                     /\ issued' = issued \cup {access_token, refresh_token}
                     /\ res' = [res EXCEPT ![p] =
                           [Response("login", 200, "", email, 0)
                            EXCEPT !.user_id = user.id,
                                   !.access_token = access_token,
                                   !.refresh_token = refresh_token,
                                   !.expires_in = ACCESS_TOKEN_EXPIRE_MINUTES * 60,
                                   !.remember_me = remember_me]]
    /\ UNCHANGED <<password_resets, email_verifications, now, ticks,
                   utcoffset, outbox, pc, loc>>
    /\ GetDb(p)

(***************************************************************************)
(* refresh_access_token behind POST /refresh                               *)
(***************************************************************************)
Refresh(p, token) ==
    /\ FreeSlot(p)
    /\ Cardinality(issued) + 1 <= MaxIssued
    /\ LET payload == verify_token(token, "refresh")
       IN  IF payload = None
           THEN /\ res' = [res EXCEPT ![p] =
                      [Response("refresh", 401, "Invalid or expired refresh token", "", 0)
                       EXCEPT !.refresh_token = token]]
                /\ UNCHANGED issued
           ELSE IF UserById(payload.sub) = {}
           THEN /\ res' = [res EXCEPT ![p] =
                      [Response("refresh", 401, "User not found", "", 0)
                       EXCEPT !.refresh_token = token]]
                /\ UNCHANGED issued
           ELSE LET user == CHOOSE u \in users : u.id = payload.sub
                    access_token == create_access_token(
                        [sub |-> user.id, email |-> user.email], NULL)
                IN  /\ issued' = issued \cup {access_token}
                    /\ res' = [res EXCEPT ![p] =
                          [Response("refresh", 200, "", "", 0)
                           EXCEPT !.user_id = user.id,
                                  !.access_token = access_token,
                                  !.refresh_token = token,
                                  !.expires_in = ACCESS_TOKEN_EXPIRE_MINUTES * 60]]
    /\ UNCHANGED <<store, now, ticks, utcoffset, outbox, pc, loc>>
    /\ GetDb(p)

(***************************************************************************)
(* get_current_user (core/deps.py) and logout_user behind POST /logout     *)
(***************************************************************************)
\* the 401 detail of get_current_user, "" when the bearer token is accepted
get_current_user(token) ==
    LET payload == verify_token(token, "access")
    IN  IF payload = None THEN "Invalid or expired token"
        ELSE IF UserById(payload.sub) = {} THEN "User not found"
        ELSE ""

\* refresh_token column LIKE '<first 100 characters of the argument>%'
Like(column, refresh_token) == column = Truncate100(refresh_token)

\* the delete without its WHERE clause
SessionsOfUser_everyone(user_id) == sessions

\* lines 478-480: select(UserSession).where(UserSession.user_id == user_id)
SessionsOfUser(user_id) == {s \in sessions : s.user_id = user_id}

\* lines 468-471: the rows of the user whose refresh_token matches the pattern
MatchingSessions(user_id, refresh_token) ==
    {s \in sessions : s.user_id = user_id /\ Like(s.refresh_token, refresh_token)}

\* Result.scalar_one: exactly one row or an exception
scalar_one(rows) ==
    IF Cardinality(rows) = 0 THEN "NoResultFound"
    ELSE IF Cardinality(rows) > 1 THEN "MultipleResultsFound"
    ELSE ""

\* line 473, Result.scalar_one_or_none: the exception it raises, "" when it
\* returns the row or None
scalar_one_or_none(rows) ==
    IF Cardinality(rows) > 1 THEN "MultipleResultsFound" ELSE ""

\* lines 160-170 of login_user: the sessions row stored by the login that
\* issued refresh_token (same user, same instant, same expiry)
SessionIssuedWith(refresh_token) ==
    {s \in sessions : /\ s.user_id = refresh_token.sub
                      /\ s.created_at = refresh_token.iat
                      /\ s.expires_at = refresh_token.exp}

Logout(p, bearer, logout_all_devices, refresh_token) ==
    /\ FreeSlot(p)
    /\ IF get_current_user(bearer) # ""
       THEN /\ res' = [res EXCEPT ![p] =
                  [Response("logout", 401, get_current_user(bearer), "", 0)
                   EXCEPT !.access_token = bearer,
                          !.refresh_token = refresh_token]]
            /\ UNCHANGED sessions
       ELSE LET user_id == bearer.sub
                token_to_invalidate ==
                    IF ~logout_all_devices THEN refresh_token ELSE NoJWT
                matching ==
                    IF token_to_invalidate # NoJWT
                    THEN MatchingSessions(user_id, token_to_invalidate)
                    ELSE SessionsOfUser(user_id)
            IN  IF token_to_invalidate # NoJWT /\ scalar_one_or_none(matching) # ""
                THEN \* the exception is caught by the route's except Exception
                     /\ res' = [res EXCEPT ![p] =
                           [Response("logout", 500, "Failed to logout", "", 0)
                            EXCEPT !.user_id = user_id,
                                   !.access_token = bearer,
                                   !.refresh_token = refresh_token]]
                     /\ UNCHANGED sessions
                ELSE /\ sessions' = sessions \ matching
                     /\ res' = [res EXCEPT ![p] =
                           [Response("logout", 200, "Logged out successfully", "", 0)
                            EXCEPT !.user_id = user_id,
                                   !.access_token = bearer,
                                   !.refresh_token = refresh_token]]
    /\ UNCHANGED <<users, password_resets, email_verifications, now, ticks,
                   utcoffset, issued, outbox, pc, loc>>
    /\ GetDb(p)

(***************************************************************************)
(* request_password_reset behind POST /forgot-password                     *)
(***************************************************************************)
\* a reset row made for whatever address was asked about
reset_recipients_unchecked(email) == {email}

\* lines 258-265: the email of the users row found for the address, if any
reset_recipients(email) == {u.email : u \in UserByEmail(email)}

\* a message that tells a registered address from an unregistered one
forgot_password_message_enumerating(email) ==
    IF UserByEmail(email) = {} THEN "Email not found"
    ELSE "A password reset link has been sent."

\* routes/auth.py lines 262-265: the body of the 200 response
forgot_password_message(email) ==
    "If the email exists, a password reset link has been sent."

ForgotPassword(p, email) ==
    /\ FreeSlot(p)
    /\ Cardinality(password_resets) < MaxResets
    /\ LET rows == {[token |-> NewResetToken, email |-> e,
                     expires_at |-> now + timedelta(0, RESET_EXPIRE_HOURS, 0),
                     used_at |-> NULL, created_at |-> now] :
                       e \in reset_recipients(email)}
       IN  /\ password_resets' = password_resets \cup rows
           \* line 283: after the commit
           /\ outbox' = outbox \cup
                 {Mail("password_reset", r.email, r.token) : r \in rows}
    /\ res' = [res EXCEPT ![p] =
          Response("forgot_password", 200, forgot_password_message(email),
                   email, 0)]
    /\ UNCHANGED <<users, sessions, email_verifications, now, ticks,
                   utcoffset, issued, pc, loc>>
    /\ GetDb(p)

(***************************************************************************)
(* reset_password behind POST /reset-password                              *)
(***************************************************************************)
\* the lookup without the used_at filter
UnusedReset_any(token) == {r \in password_resets : r.token = token}

\* the lookup turning a token down once another token of its email was used
UnusedReset_single(token) ==
    {r \in password_resets :
        /\ r.token = token /\ r.used_at = NULL
        /\ \A q \in password_resets : q.email = r.email => q.used_at = NULL}

\* PasswordReset.token == token AND used_at IS NULL
UnusedReset(token) ==
    {r \in password_resets : r.token = token /\ r.used_at = NULL}

\* no expiry check
is_expired_never(row) == FALSE

\* datetime.utcnow() > expires_at
is_expired(row) == now > row.expires_at

\* lines 305-333: both lookups, the checks and the new column values
ResetBegin(p, token, new_password) ==
    /\ FreeSlot(p)
    /\ IF UnusedReset(token) = {}
       THEN /\ res' = [res EXCEPT ![p] =
                  Response("reset_password", 400,
                           "Invalid or already used reset token", "", token)]
            /\ UNCHANGED <<pc, loc>>
       ELSE LET password_reset == CHOOSE r \in UnusedReset(token) : TRUE
            IN  IF is_expired(password_reset)
                THEN /\ res' = [res EXCEPT ![p] =
                           Response("reset_password", 400,
                                    "Reset token has expired", "", token)]
                     /\ UNCHANGED <<pc, loc>>
                ELSE IF UserByEmail(password_reset.email) = {}
                THEN /\ res' = [res EXCEPT ![p] =
                           Response("reset_password", 400, "User not found",
                                    "", token)]
                     /\ UNCHANGED <<pc, loc>>
                ELSE LET user == CHOOSE u \in users :
                                     u.email = password_reset.email
                     IN  /\ pc' = [pc EXCEPT ![p] = "reset"]
                         /\ loc' = [loc EXCEPT ![p] =
                               [email |-> user.email, user_id |-> user.id,
                                password_hash |-> hash_password(new_password),
                                token |-> token, at |-> now]]
                         /\ res' = [res EXCEPT ![p] =
                               Response("reset_password", 0, "", user.email, token)]
    /\ UNCHANGED <<store, now, ticks, utcoffset, issued, outbox>>
    /\ GetDb(p)

\* line 335: the commit writes the changed columns of both loaded rows
ResetCommit(p) ==
    /\ pc[p] = "reset"
    /\ LET l == loc[p]
       IN  /\ users' = {IF u.id = l.user_id
                        THEN [u EXCEPT !.password_hash = l.password_hash,
                                       !.updated_at = l.at]
                        ELSE u : u \in users}
           /\ password_resets' = {IF r.token = l.token
                                  THEN [r EXCEPT !.used_at = l.at]
                                  ELSE r : r \in password_resets}
           /\ res' = [res EXCEPT ![p] =
                 Response("reset_password", 200, "", l.email, l.token)]
    /\ pc' = [pc EXCEPT ![p] = "idle"]
    /\ loc' = [loc EXCEPT ![p] = NoLocals]
    /\ UNCHANGED <<sessions, email_verifications, now, ticks, utcoffset, issued,
                   outbox>>
    /\ GetDb(p)

(***************************************************************************)
(* verify_email behind POST /verify-email                                  *)
(***************************************************************************)
\* the lookup without the verified_at filter
UnverifiedToken_any(token) == {v \in email_verifications : v.token = token}

\* lines 362-367: EmailVerification.token == token AND verified_at IS NULL
UnverifiedToken(token) ==
    {v \in email_verifications : v.token = token /\ v.verified_at = NULL}

\* the token marked, the user left as it was
mark_verified_token_only(user, at) == [user EXCEPT !.updated_at = at]

\* lines 384-387: the columns verify_email sets on the user
mark_verified(user, at) ==
    [user EXCEPT !.email_verified = TRUE, !.email_verified_at = at,
                 !.updated_at = at]

\* lines 362-389: both lookups, the checks and the new column values
VerifyEmailBegin(p, token) ==
    /\ FreeSlot(p)
    /\ IF UnverifiedToken(token) = {}
       THEN /\ res' = [res EXCEPT ![p] =
                  Response("verify_email", 400,
                           "Invalid or already used verification token",
                           "", token)]
            /\ UNCHANGED <<pc, loc>>
       ELSE LET email_verification == CHOOSE v \in UnverifiedToken(token) : TRUE
            IN  IF is_expired(email_verification)
                THEN /\ res' = [res EXCEPT ![p] =
                           Response("verify_email", 400,
                                    "Verification token has expired", "", token)]
                     /\ UNCHANGED <<pc, loc>>
                ELSE IF UserByEmail(email_verification.email) = {}
                THEN /\ res' = [res EXCEPT ![p] =
                           Response("verify_email", 400, "User not found",
                                    "", token)]
                     /\ UNCHANGED <<pc, loc>>
                ELSE LET user == CHOOSE u \in users :
                                     u.email = email_verification.email
                     IN  /\ pc' = [pc EXCEPT ![p] = "verify"]
                         /\ loc' = [loc EXCEPT ![p] =
                               [NoLocals EXCEPT !.email = user.email,
                                                !.user_id = user.id,
                                                !.token = token,
                                                !.at = now]]
                         /\ res' = [res EXCEPT ![p] =
                               Response("verify_email", 0, "", user.email, token)]
    /\ UNCHANGED <<store, now, ticks, utcoffset, issued, outbox>>
    /\ GetDb(p)

\* line 391: the commit writes the changed columns of both loaded rows
VerifyEmailCommit(p) ==
    /\ pc[p] = "verify"
    /\ LET l == loc[p]
       IN  /\ users' = {IF u.id = l.user_id
                        THEN mark_verified(u, l.at)
                        ELSE u : u \in users}
           /\ email_verifications' = {IF v.token = l.token
                                      THEN [v EXCEPT !.verified_at = l.at]
                                      ELSE v : v \in email_verifications}
           /\ res' = [res EXCEPT ![p] =
                 Response("verify_email", 200,
                          "Email verified successfully. You can now access all platform features.",
                          l.email, l.token)]
    /\ pc' = [pc EXCEPT ![p] = "idle"]
    /\ loc' = [loc EXCEPT ![p] = NoLocals]
    /\ UNCHANGED <<sessions, password_resets, now, ticks, utcoffset, issued,
                   outbox>>
    /\ GetDb(p)

(***************************************************************************)
(* resend_verification_email behind POST /resend-verification              *)
(***************************************************************************)
\* the checks without the one of email_verified
resend_error_unchecked(email) ==
    IF UserByEmail(email) = {} THEN "Email not found" ELSE ""

\* lines 415-423: the ValueError message, "" when a token is to be sent
resend_error(email) ==
    IF UserByEmail(email) = {} THEN "Email not found"
    ELSE LET user == CHOOSE u \in users : u.email = email
         IN  IF user.email_verified THEN "Email already verified" ELSE ""

ResendVerification(p, email) ==
    /\ FreeSlot(p)
    /\ IF resend_error(email) # ""
       THEN /\ res' = [res EXCEPT ![p] =
                  Response("resend_verification", 400, resend_error(email),
                           email, 0)]
            /\ UNCHANGED <<email_verifications, outbox>>
       ELSE LET user == CHOOSE u \in users : u.email = email
                email_verification ==
                    [token |-> NewVerificationToken, email |-> user.email,
                     expires_at |-> now + timedelta(0, VERIFICATION_EXPIRE_HOURS, 0),
                     verified_at |-> NULL, created_at |-> now]
            IN  /\ Cardinality({v \in email_verifications : v.email = email})
                      <= MaxResends
                /\ email_verifications' =
                      email_verifications \cup {email_verification}
                \* line 440: after the commit
                /\ outbox' = outbox \cup
                      {Mail("verification", user.email, email_verification.token)}
                /\ res' = [res EXCEPT ![p] =
                      Response("resend_verification", 200,
                               "Verification email sent. Please check your inbox.",
                               email, email_verification.token)]
    /\ UNCHANGED <<users, sessions, password_resets, now, ticks, utcoffset,
                   issued, pc, loc>>
    /\ GetDb(p)

(***************************************************************************)
(* The clock                                                               *)
(***************************************************************************)
Tick(d) ==
    /\ ticks < MaxTicks
    /\ now' = now + d
    /\ ticks' = ticks + 1
    /\ UNCHANGED <<store, utcoffset, issued, outbox, db, pc, loc, res>>

(***************************************************************************)
(* Specifications                                                          *)
(***************************************************************************)
Bearers == issued \cup ForgedTokens
ResetTokens == 0..MaxResets
LoginEmails == Emails \cup {"nobody@x.com"}

NextRegisterBegin == \E p \in Procs, e \in Emails, w \in Passwords : RegisterBegin(p, e, w)
NextRegisterCommit == \E p \in Procs : RegisterCommit(p)
NextRegisterCommitDispatchFailed == \E p \in Procs : RegisterCommitDispatchFailed(p)
NextLogin == \E p \in Procs, e \in LoginEmails, w \in Passwords, r \in BOOLEAN :
                Login(p, e, w, r)
NextRefresh == \E p \in Procs, t \in Bearers : Refresh(p, t)
NextLogout == \E p \in Procs, t \in Bearers, a \in BOOLEAN, r \in Bearers \cup {NoJWT} :
                 Logout(p, t, a, r)
NextForgotPassword == \E p \in Procs, e \in LoginEmails : ForgotPassword(p, e)
NextResetBegin == \E p \in Procs, t \in ResetTokens, w \in Passwords : ResetBegin(p, t, w)
NextResetCommit == \E p \in Procs : ResetCommit(p)
NextVerifyEmailBegin ==
    \E p \in Procs, t \in {0} \cup {v.token : v \in email_verifications} :
       VerifyEmailBegin(p, t)
NextVerifyEmailCommit == \E p \in Procs : VerifyEmailCommit(p)
NextResendVerification ==
    \E p \in Procs, e \in LoginEmails : ResendVerification(p, e)
\* clock advances: one second, the access lifetime, the reset-token lifetime
NextTick == \E d \in {1, timedelta(0, 0, ACCESS_TOKEN_EXPIRE_MINUTES),
                      timedelta(0, RESET_EXPIRE_HOURS, 0)} : Tick(d)
NextTickSecond == Tick(1)
\* to the instant an access token or a reset token expires, and just past it
NextTickAccess == \E d \in {timedelta(0, 0, ACCESS_TOKEN_EXPIRE_MINUTES),
                            timedelta(0, 0, ACCESS_TOKEN_EXPIRE_MINUTES) + 1} : Tick(d)
NextTickReset == \E d \in {timedelta(0, RESET_EXPIRE_HOURS, 0),
                           timedelta(0, RESET_EXPIRE_HOURS, 0) + 1} : Tick(d)
\* to the instant a verification token expires, and just past it
NextTickVerification ==
    \E d \in {timedelta(0, VERIFICATION_EXPIRE_HOURS, 0),
              timedelta(0, VERIFICATION_EXPIRE_HOURS, 0) + 1} : Tick(d)

Next ==
    \/ NextRegisterBegin
    \/ NextRegisterCommit
    \/ NextRegisterCommitDispatchFailed
    \/ NextLogin
    \/ NextRefresh
    \/ NextLogout
    \/ NextForgotPassword
    \/ NextResetBegin
    \/ NextResetCommit
    \/ NextVerifyEmailBegin
    \/ NextVerifyEmailCommit
    \/ NextResendVerification
    \/ NextTick

Spec == Init /\ [][Next]_vars

\* the server's local time zone is UTC
InitUTC == Init /\ utcoffset = 0

\* the store after a@x.com registered with Passw0rd1 at time 0 next to the
\* OAuth account: the rows RegisterCommit writes
RegisteredUser ==
    [id |-> 2, email |-> "a@x.com", password_hash |-> hash_password("Passw0rd1"),
     email_verified |-> FALSE, email_verified_at |-> NULL,
     created_at |-> 0, updated_at |-> 0, last_login_at |-> NULL]

InitRegistered ==
    /\ users = {OAuthUser, RegisteredUser}
    /\ sessions = {}
    /\ password_resets = {}
    /\ email_verifications =
          {[token |-> 1, email |-> "a@x.com",
            expires_at |-> timedelta(0, VERIFICATION_EXPIRE_HOURS, 0),
            verified_at |-> NULL, created_at |-> 0]}
    /\ now = 0
    /\ ticks = 0
    /\ utcoffset \in UtcOffsets
    /\ issued = {}
    /\ outbox = {Mail("verification", "a@x.com", 1)}
    /\ db = [p \in Procs |-> "closed"]
    /\ pc = [p \in Procs |-> "idle"]
    /\ loc = [p \in Procs |-> NoLocals]
    /\ res = [p \in Procs |-> NoResponse]

\* registration racing with itself
NextRegister ==
    \/ NextRegisterBegin
    \/ NextRegisterCommit
    \/ NextTickSecond

SpecRegister == InitUTC /\ [][NextRegister]_vars

\* the password-reset flow racing with itself
NextForgotAccount ==
    \E p \in Procs, e \in {"a@x.com", "nobody@x.com"} : ForgotPassword(p, e)

NextReset ==
    \/ NextForgotAccount
    \/ NextResetBegin
    \/ NextResetCommit
    \/ NextTickReset

InitRegisteredUTC == InitRegistered /\ utcoffset = 0

SpecReset == InitRegisteredUTC /\ [][NextReset]_vars

\* login, logout and the session ledger
NextSession ==
    \/ NextLogin
    \/ NextLogout
    \/ NextTickSecond

SpecSession == InitRegistered /\ [][NextSession]_vars

\* the token codec on the tokens the server issues
NextToken ==
    \/ NextLogin
    \/ NextRefresh
    \/ NextLogout
    \/ NextTickAccess

SpecToken == InitRegistered /\ [][NextToken]_vars

\* refresh tokens up to the end of their life: the clock goes to one second
\* before and one second after the exp of a 7-day refresh token
NextTickRefresh ==
    \E d \in {timedelta(REFRESH_TOKEN_EXPIRE_DAYS, 0, 0) - 1,
              timedelta(REFRESH_TOKEN_EXPIRE_DAYS, 0, 0) + 1} : Tick(d)

\* POST /logout with logout_all_devices = true and no refresh_token
NextLogoutAll == \E p \in Procs, t \in Bearers : Logout(p, t, TRUE, NoJWT)

NextRefreshFlow ==
    \/ NextLogin
    \/ NextRefresh
    \/ NextLogoutAll
    \/ NextTickRefresh

SpecRefresh == InitRegistered /\ [][NextRefreshFlow]_vars

\* logout with the sessions of two accounts in the table: b@x.com registered
\* with Passw0rd2 at time 0 as well
SecondUser ==
    [id |-> 3, email |-> "b@x.com", password_hash |-> hash_password("Passw0rd2"),
     email_verified |-> FALSE, email_verified_at |-> NULL,
     created_at |-> 0, updated_at |-> 0, last_login_at |-> NULL]

InitTwoUsers ==
    /\ users = {OAuthUser, RegisteredUser, SecondUser}
    /\ sessions = {}
    /\ password_resets = {}
    /\ email_verifications =
          {[token |-> t, email |-> IF t = 1 THEN "a@x.com" ELSE "b@x.com",
            expires_at |-> timedelta(0, VERIFICATION_EXPIRE_HOURS, 0),
            verified_at |-> NULL, created_at |-> 0] : t \in {1, 2}}
    /\ now = 0
    /\ ticks = 0
    /\ utcoffset \in UtcOffsets
    /\ issued = {}
    /\ outbox = {Mail("verification", "a@x.com", 1),
                 Mail("verification", "b@x.com", 2)}
    /\ db = [p \in Procs |-> "closed"]
    /\ pc = [p \in Procs |-> "idle"]
    /\ loc = [p \in Procs |-> NoLocals]
    /\ res = [p \in Procs |-> NoResponse]

NextLoginTwo ==
    \E p \in Procs, e \in {"a@x.com", "b@x.com"}, w \in Passwords :
       Login(p, e, w, FALSE)

NextLogoutFlow ==
    \/ NextLoginTwo
    \/ NextLogout
    \/ NextTickSecond

SpecLogout == InitTwoUsers /\ [][NextLogoutFlow]_vars

\* two reset requests for a@x.com were made at time 0: the rows and emails
\* ForgotPassword leaves behind
InitTwoResets ==
    /\ users = {OAuthUser, RegisteredUser}
    /\ sessions = {}
    /\ password_resets =
          {[token |-> t, email |-> "a@x.com",
            expires_at |-> timedelta(0, RESET_EXPIRE_HOURS, 0),
            used_at |-> NULL, created_at |-> 0] : t \in {1, 2}}
    /\ email_verifications =
          {[token |-> 1, email |-> "a@x.com",
            expires_at |-> timedelta(0, VERIFICATION_EXPIRE_HOURS, 0),
            verified_at |-> NULL, created_at |-> 0]}
    /\ now = 0
    /\ ticks = 0
    /\ utcoffset = 0
    /\ issued = {}
    /\ outbox = {Mail("verification", "a@x.com", 1),
                 Mail("password_reset", "a@x.com", 1),
                 Mail("password_reset", "a@x.com", 2)}
    /\ db = [p \in Procs |-> "closed"]
    /\ pc = [p \in Procs |-> "idle"]
    /\ loc = [p \in Procs |-> NoLocals]
    /\ res = [p \in Procs |-> NoResponse]

\* POST /reset-password with a token of the table, or with one that is not
NextResetBeginAny ==
    \E p \in Procs, t \in {0} \cup {r.token : r \in password_resets},
       w \in Passwords : ResetBegin(p, t, w)

NextResetTwo ==
    \/ NextResetBeginAny
    \/ NextResetCommit
    \/ NextTickReset

SpecResetTwo == InitTwoResets /\ [][NextResetTwo]_vars

\* a password reset for an account that holds tokens of earlier logins
NextLoginAccount ==
    \E p \in Procs, w \in Passwords, r \in BOOLEAN : Login(p, "a@x.com", w, r)

NextResetSession ==
    \/ NextLoginAccount
    \/ NextForgotAccount
    \/ NextResetBegin
    \/ NextResetCommit
    \/ NextTickSecond

SpecResetSession == InitRegistered /\ [][NextResetSession]_vars

\* email verification racing with itself, for two registered accounts
NextVerify ==
    \/ NextVerifyEmailBegin
    \/ NextVerifyEmailCommit
    \/ NextTickVerification

SpecVerify == InitTwoUsers /\ [][NextVerify]_vars

\* verification tokens resent to the accounts and to an unknown address
NextResendAny ==
    \E p \in Procs, e \in LoginEmails \cup {"b@x.com"} : ResendVerification(p, e)

NextResend ==
    \/ NextResendAny
    \/ NextTickSecond

SpecResend == InitTwoUsers /\ [][NextResend]_vars

\* registration with an email sender that can fail
NextDispatch ==
    \/ NextRegisterBegin
    \/ NextRegisterCommit
    \/ NextRegisterCommitDispatchFailed
    \/ NextTickSecond

SpecDispatch == InitUTC /\ [][NextDispatch]_vars

(***************************************************************************)
(* Registration                                                            *)
(***************************************************************************)
EmailAlreadyRegistered(r) ==
    r.status = 400 /\ r.detail = "Email already registered"

\* C1: however register_user calls interleave, also when two calls for one
\* email both pass the pre-check before either commits, no two users rows
\* share an email, a call answered 201 has its row, and every other finished
\* call ends with "Email already registered" and nothing else.
C1_RegisterRace ==
    /\ \A u1 \in users, u2 \in users : u1.email = u2.email => u1 = u2
    /\ \A p \in Procs :
          res[p].op = "register" /\ res[p].status # 0 =>
             \/ /\ res[p].status = 201
                /\ \E u \in users : u.id = res[p].user_id /\ u.email = res[p].email
             \/ EmailAlreadyRegistered(res[p])

\* two calls for one email raced: one created the row, the other was turned
\* down by the constraint at its commit
C1_Witness ==
    \E p \in Procs, q \in Procs :
       /\ res[p].op = "register" /\ res[p].status = 201
       /\ res[q].op = "register" /\ res[q].email = res[p].email
       /\ EmailAlreadyRegistered(res[q]) /\ res[q].raised = "commit"

\* C2: register_user for an email that already has a users row fails with
\* "Email already registered" and changes no row of any table, whether the
\* row is seen by the pre-check or by the constraint at commit.
C2_DuplicateRegisterFrame ==
    [][/\ \A p \in Procs, e \in Emails, w \in Passwords :
             RegisterBegin(p, e, w) /\ UserByEmail(e) # {} =>
                /\ EmailAlreadyRegistered(res'[p])
                /\ pc'[p] = "idle"
                /\ store' = store
       /\ \A p \in Procs :
             RegisterCommit(p) /\ UserByEmail(loc[p].email) # {} =>
                /\ EmailAlreadyRegistered(res'[p])
                /\ store' = store]_vars

\* a registration was turned down by the pre-check while the earlier user,
\* registered with the other password, is still as it was created
C2_Witness ==
    \E p \in Procs, u \in users :
       /\ res[p].op = "register" /\ res[p].raised = "pre-check"
       /\ u.email = res[p].email
       /\ u.password_hash # NoHash
       /\ u.created_at < now

(***************************************************************************)
(* Password reset                                                          *)
(***************************************************************************)
InvalidOrUsedToken(r) ==
    r.status = 400 /\ r.detail = "Invalid or already used reset token"

TokenExpired(r) ==
    r.status = 400 /\ r.detail = "Reset token has expired"

ResetSucceeded(r) == r.op = "reset_password" /\ r.status = 200

\* C3: once a reset with a token has been committed (its used_at is set),
\* every reset_password call made afterwards with that token is answered
\* "Invalid or already used reset token" and goes no further: no row changes,
\* also while the token is still inside its hour.
C3_UsedResetTokenRejected ==
    [][\A p \in Procs, t \in ResetTokens, w \in Passwords :
          /\ ResetBegin(p, t, w)
          /\ \E r \in password_resets : r.token = t /\ r.used_at # NULL
          => /\ InvalidOrUsedToken(res'[p])
             /\ pc'[p] = "idle"
             /\ store' = store]_vars

\* a second reset with a used token was turned down inside the token's hour
C3_Witness ==
    \E p \in Procs, r \in password_resets :
       /\ res[p].op = "reset_password" /\ InvalidOrUsedToken(res[p])
       /\ res[p].token = r.token
       /\ r.used_at # NULL
       /\ now <= r.expires_at

\* C4: of the reset_password calls that present one token, at most one is
\* answered with success.
C4_TokenConsumedOnce ==
    \A p \in Procs, q \in Procs :
       /\ ResetSucceeded(res[p])
       /\ ResetSucceeded(res[q])
       /\ res[p].token = res[q].token
       => p = q

\* C5: a password_resets row expires one hour after its creation, and
\* reset_password with an unused token past its expiry is answered
\* "Reset token has expired" and goes no further: no row changes, used_at
\* stays NULL.
C5_ExpiredResetTokenRejected ==
    /\ [](\A r \in password_resets : r.expires_at = r.created_at + 3600)
    /\ [][\A p \in Procs, t \in ResetTokens, w \in Passwords :
             /\ ResetBegin(p, t, w)
             /\ \E r \in password_resets :
                   r.token = t /\ r.used_at = NULL /\ now > r.expires_at
             => /\ TokenExpired(res'[p])
                /\ pc'[p] = "idle"
                /\ store' = store]_vars

\* a reset with an unused token was turned down after the token's hour
C5_Witness ==
    \E p \in Procs, r \in password_resets :
       /\ res[p].op = "reset_password" /\ TokenExpired(res[p])
       /\ res[p].token = r.token
       /\ r.used_at = NULL
       /\ now > r.expires_at
       /\ pc[p] = "idle"

(***************************************************************************)
(* Login                                                                   *)
(***************************************************************************)
\* C6: every login_user call with an existing user's email and the matching
\* password succeeds and adds one sessions row, however many sessions rows
\* the user already has.
C6_LoginAlwaysSucceeds ==
    [][\A p \in Procs, e \in LoginEmails, w \in Passwords, r \in BOOLEAN :
          Login(p, e, w, r) /\ login_error(e, w) = ""
          => /\ res'[p].status = 200
             /\ Cardinality(sessions') = Cardinality(sessions) + 1]_vars

\* C7: the three ways a login fails (unknown email, account without a
\* password hash, wrong password) give one and the same 401 answer, and a
\* failed login adds no sessions row and leaves users.last_login_at alone.
C7_FailedLoginUniform ==
    /\ [](\A e1 \in LoginEmails, e2 \in LoginEmails,
             w1 \in Passwords, w2 \in Passwords :
             login_error(e1, w1) # "" /\ login_error(e2, w2) # ""
             => login_error(e1, w1) = login_error(e2, w2))
    /\ [][\A p \in Procs, e \in LoginEmails, w \in Passwords, r \in BOOLEAN :
             Login(p, e, w, r) /\ login_error(e, w) # ""
             => /\ res'[p].status = 401
                /\ res'[p].detail = login_error(e, w)
                /\ res'[p].access_token = NoJWT
                /\ res'[p].refresh_token = NoJWT
                /\ sessions' = sessions
                /\ users' = users]_vars

\* a login was refused while an unknown email, an account without a hash
\* and an account with another password all exist to be compared
C7_Witness ==
    /\ \E p \in Procs : res[p].op = "login" /\ res[p].status = 401
    /\ UserByEmail("nobody@x.com") = {}
    /\ \E u \in users : u.password_hash = NoHash
    /\ \E u \in users, w \in Passwords :
          u.password_hash # NoHash /\ ~verify_password(w, u.password_hash)

\* C10: a successful login returns an access token of type access expiring
\* the access lifetime (15 minutes) after the call, a refresh token of type
\* refresh expiring 30 days after the call with remember_me and the refresh
\* lifetime (7 days) without, and expires_in = the access lifetime in seconds.
C10_LoginTokenLifetimes ==
    [][\A p \in Procs, e \in LoginEmails, w \in Passwords, r \in BOOLEAN :
          Login(p, e, w, r) /\ res'[p].status = 200
          => /\ res'[p].access_token.type = "access"
             /\ res'[p].access_token.exp = now + ACCESS_TOKEN_EXPIRE_MINUTES * 60
             /\ res'[p].refresh_token.type = "refresh"
             /\ res'[p].refresh_token.exp =
                   now + (IF r THEN 30 ELSE REFRESH_TOKEN_EXPIRE_DAYS) * 86400
             /\ res'[p].expires_in = ACCESS_TOKEN_EXPIRE_MINUTES * 60
             /\ res'[p].expires_in = 900
             /\ {res'[p].access_token, res'[p].refresh_token} \subseteq issued']_vars

\* a login with remember_me succeeded some time after the start
C10_Witness ==
    \E p \in Procs :
       /\ res[p].op = "login" /\ res[p].status = 200
       /\ res[p].remember_me
       /\ res[p].access_token.iat > 0
       /\ res[p].refresh_token.exp = res[p].refresh_token.iat + 2592000

(***************************************************************************)
(* Token types and expiry                                                  *)
(***************************************************************************)
\* C8: an access token is never accepted as a refresh token, nor a refresh
\* token as an access token: POST /refresh answers an access token with 401
\* "Invalid or expired refresh token", and get_current_user answers a refresh
\* token with 401, signed and unexpired though it is.
C8_TokenTypesNotInterchangeable ==
    /\ \A t \in issued :
          /\ t.type = "access" => verify_token(t, "refresh") = None
          /\ t.type = "refresh" => /\ verify_token(t, "access") = None
                                   /\ get_current_user(t) # ""
    /\ \A p \in Procs :
          /\ res[p].op = "refresh" /\ res[p].refresh_token.type = "access"
             => /\ res[p].status = 401
                /\ res[p].detail = "Invalid or expired refresh token"
          /\ res[p].op = "logout" /\ res[p].access_token.type = "refresh"
             => res[p].status = 401

\* POST /refresh turned down a signed access token that is accepted as an
\* access token, while a signed refresh token accepted as a refresh token is
\* turned down by get_current_user
C8_Witness ==
    /\ \E p \in Procs :
          /\ res[p].op = "refresh" /\ res[p].status = 401
          /\ res[p].refresh_token \in issued
          /\ res[p].refresh_token.type = "access"
          /\ verify_token(res[p].refresh_token, "access") # None
    /\ \E t \in issued :
          /\ t.type = "refresh"
          /\ verify_token(t, "refresh") # None
          /\ get_current_user(t) # ""

\* C9: verify_token returns None for every token from the instant of its exp
\* claim on, that instant included.
C9_RejectedFromExpOn ==
    \A t \in issued : now >= t.exp => verify_token(t, t.type) = None

(***************************************************************************)
(* Refresh                                                                 *)
(***************************************************************************)
\* C11: a refresh_access_token call with a refresh token the server issued
\* succeeds at every time before the token's exp, however often the token
\* was presented before; it hands out one new access token and nothing
\* else, and it changes no row of any table.
C11_RefreshReusable ==
    [][\A p \in Procs, t \in Bearers :
          /\ Refresh(p, t)
          /\ t \in issued /\ t.type = "refresh"
          /\ now < t.exp
          => /\ res'[p].status = 200
             /\ res'[p].access_token.type = "access"
             /\ res'[p].access_token.sub = t.sub
             /\ issued' \ issued \subseteq {res'[p].access_token}
             /\ res'[p].expires_in = ACCESS_TOKEN_EXPIRE_MINUTES * 60
             /\ store' = store]_vars

C13_LogoutAllDeletesOwnSessions ==
    [][\A p \in Procs, b \in Bearers, a \in BOOLEAN, r \in Bearers \cup {NoJWT} :
          /\ res'[p].access_token = b /\ res'[p].refresh_token = r
          /\ get_current_user(b) = ""
          /\ (a \/ r = NoJWT)
          /\ Logout(p, b, a, r)
          => /\ res'[p].status = 200
             /\ sessions' = {s \in sessions : s.user_id # b.sub}]_vars

\* a user logged out of all devices while another user had a session: the
\* other user's row is the only one left
C13_Witness ==
    \E p \in Procs :
       /\ res[p].op = "logout" /\ res[p].status = 200
       /\ res[p].refresh_token = NoJWT
       /\ sessions # {}
       /\ \A s \in sessions : s.user_id # res[p].user_id
       /\ \E t \in issued : t.type = "refresh" /\ t.sub = res[p].user_id

\* C14: POST /logout by an authenticated user with a refresh token the server
\* issued (and logout_all_devices = false) deletes the sessions row stored by
\* the login that issued that token, provided it was issued to this user, and
\* leaves every other sessions row of this user and of other users as it is.
C14_SelectiveLogoutFrame ==
    [][\A p \in Procs, b \in Bearers, r \in Bearers :
          /\ res'[p].access_token = b /\ res'[p].refresh_token = r
          /\ get_current_user(b) = ""
          /\ r \in issued /\ r.type = "refresh"
          /\ Logout(p, b, FALSE, r)
          => sessions' = sessions \
                (IF r.sub = b.sub THEN SessionIssuedWith(r) ELSE {})]_vars

\* C15: a POST /logout by an authenticated user that matches no sessions row
\* (a refresh token matching none of the user's rows, or a logout of all
\* devices when the user has no row) answers 200 "Logged out successfully"
\* and changes no row of any table.
C15_LogoutIdempotent ==
    [][\A p \in Procs, b \in Bearers, a \in BOOLEAN, r \in Bearers \cup {NoJWT} :
          /\ res'[p].access_token = b /\ res'[p].refresh_token = r
          /\ get_current_user(b) = ""
          /\ IF ~a /\ r # NoJWT
             THEN MatchingSessions(b.sub, r) = {}
             ELSE SessionsOfUser(b.sub) = {}
          /\ Logout(p, b, a, r)
          => /\ res'[p].status = 200
             /\ res'[p].detail = "Logged out successfully"
             /\ store' = store]_vars

\* a user with a session logged out with a refresh token of somebody else:
\* answered 200 with the user's own row and the other user's row still there
C15_Witness ==
    \E p \in Procs :
       /\ res[p].op = "logout" /\ res[p].status = 200
       /\ res[p].refresh_token \in issued
       /\ res[p].refresh_token.sub # res[p].user_id
       /\ \E s \in sessions : s.user_id = res[p].user_id
       /\ \E s \in sessions : s.user_id = res[p].refresh_token.sub

(***************************************************************************)
(* Password reset requests                                                 *)
(***************************************************************************)
\* C16: request_password_reset for an email no users row has creates no
\* password_resets row and hands no email to the sender; for an email of a
\* users row it creates exactly one row, for that email, with used_at NULL
\* and expires_at one hour after its creation, and sends the reset email for
\* it; both are answered with success.
C16_ResetRequestRows ==
    [][\A p \in Procs, e \in LoginEmails :
          ForgotPassword(p, e)
          => /\ res'[p].status = 200
             /\ IF UserByEmail(e) = {}
                THEN /\ password_resets' = password_resets
                     /\ outbox' = outbox
                ELSE \E r \in password_resets' \ password_resets :
                        /\ password_resets' = password_resets \cup {r}
                        /\ r.email = e
                        /\ r.used_at = NULL
                        /\ r.created_at = now
                        /\ r.expires_at = r.created_at + 3600
                        /\ outbox' = outbox \cup
                              {Mail("password_reset", e, r.token)}]_vars

\* a reset was requested for the registered address some time after the
\* start: its row is unused and its email went out
C16_Witness ==
    \E p \in Procs, r \in password_resets :
       /\ res[p].op = "forgot_password" /\ res[p].email = "a@x.com"
       /\ r.email = "a@x.com" /\ r.used_at = NULL
       /\ r.created_at > 0
       /\ Mail("password_reset", "a@x.com", r.token) \in outbox

\* what the caller of POST /forgot-password sees of a response
ForgotPasswordVisible(r) == [status |-> r.status, message |-> r.detail]

\* C17: the status and body answered to POST /forgot-password for an email
\* are the ones answered, in the same state, for any email that differs in
\* being registered or not: 200 and the one fixed message.
C17_ForgotPasswordUniform ==
    [][\A p \in Procs, e \in LoginEmails, f \in LoginEmails :
          /\ ForgotPassword(p, e)
          /\ (UserByEmail(e) = {}) # (UserByEmail(f) = {})
          => ForgotPasswordVisible(res'[p]) =
                [status |-> 200, message |-> forgot_password_message(f)]]_vars

\* a reset was requested for an address nobody registered, while another
\* address is registered: answered 200 and no row made
C17_Witness ==
    \E p \in Procs :
       /\ res[p].op = "forgot_password" /\ res[p].status = 200
       /\ res[p].email = "nobody@x.com"
       /\ UserByEmail("nobody@x.com") = {}
       /\ UserByEmail("a@x.com") # {}
       /\ password_resets = {}

\* C18: several password_resets rows of one email can be outstanding, and
\* they are independent: the commit of a reset marks the row of its own token
\* and no other row, and reset_password with an unused, unexpired token goes
\* through also after another token of the same email has been used.
C18_ResetTokensIndependent ==
    [][/\ \A p \in Procs :
             ResetCommit(p)
             => /\ res'[p].status = 200
                /\ \A r \in password_resets :
                      r.token # loc[p].token => r \in password_resets'
       /\ \A p \in Procs, t \in {r.token : r \in password_resets},
             w \in Passwords :
             /\ ResetBegin(p, t, w)
             /\ \E r \in password_resets :
                   /\ r.token = t /\ r.used_at = NULL /\ now <= r.expires_at
                   /\ \E q \in password_resets :
                         q.email = r.email /\ q.used_at # NULL
             => pc'[p] = "reset"]_vars

\* both tokens of a@x.com were used, the second one some time after the first
C18_Witness ==
    \E p \in Procs, r \in password_resets, q \in password_resets :
       /\ ResetSucceeded(res[p]) /\ res[p].token = r.token
       /\ q.email = r.email /\ q.token # r.token
       /\ q.used_at # NULL
       /\ r.used_at > q.used_at

\* C19: the commit of a successful reset_password changes the password_hash
\* and updated_at of the token's user and the used_at of the consumed row and
\* nothing else (no sessions row is created, changed or deleted), and after
\* it every access or refresh token issued before the reset is accepted by
\* verify_token at every time before the token's exp.
C19_ResetKeepsSessionsAndTokens ==
    /\ [][\A p \in Procs :
             ResetCommit(p)
             => /\ sessions' = sessions
                /\ email_verifications' = email_verifications
                /\ issued' = issued
                /\ outbox' = outbox
                /\ \A u \in users :
                      \/ u \in users'
                      \/ /\ u.id = loc[p].user_id
                         /\ \E h \in {hash_password(w) : w \in Passwords} :
                               [u EXCEPT !.password_hash = h,
                                         !.updated_at = loc[p].at] \in users'
                /\ Cardinality(users') = Cardinality(users)
                /\ \A r \in password_resets :
                      \/ r \in password_resets'
                      \/ /\ r.token = loc[p].token
                         /\ [r EXCEPT !.used_at = loc[p].at] \in password_resets'
                /\ Cardinality(password_resets') = Cardinality(password_resets)
                /\ \A t \in issued :
                      verify_token(t, t.type)' = verify_token(t, t.type)]_vars
    /\ [](\A t \in issued, r \in password_resets, u \in users :
             /\ r.used_at # NULL /\ u.email = r.email /\ t.sub = u.id
             /\ t.iat <= r.used_at
             /\ now < t.exp
             => verify_token(t, t.type) # None)

(***************************************************************************)
(* Email verification                                                      *)
(***************************************************************************)
VerificationInvalidOrUsed(r) ==
    r.status = 400 /\ r.detail = "Invalid or already used verification token"

VerificationExpired(r) ==
    r.status = 400 /\ r.detail = "Verification token has expired"

\* C20: verify_email with an unused token not past its expiry (24 hours
\* after creation) goes through, and its commit sets the owner's
\* email_verified with email_verified_at and the token's verified_at, other
\* rows untouched; verify_email with a token whose verified_at is set is
\* answered "Invalid or already used verification token", and with an unused
\* token past its expiry "Verification token has expired", both without
\* changing any row.
C20_VerifyEmailOnce ==
    /\ [](\A v \in email_verifications : v.expires_at = v.created_at + 86400)
    /\ [][/\ \A p \in Procs, t \in {v.token : v \in email_verifications} :
                /\ VerifyEmailBegin(p, t)
                /\ \E v \in email_verifications :
                      v.token = t /\ v.verified_at = NULL /\ now <= v.expires_at
                => pc'[p] = "verify" /\ store' = store
          /\ \A p \in Procs :
                VerifyEmailCommit(p)
                => /\ res'[p].status = 200
                   /\ loc[p].at # NULL
                   /\ \A u \in users' :
                         IF u.email = loc[p].email
                         THEN /\ u.email_verified
                              /\ u.email_verified_at = loc[p].at
                         ELSE u \in users
                   /\ \A v \in email_verifications' :
                         IF v.token = loc[p].token
                         THEN v.verified_at = loc[p].at
                         ELSE v \in email_verifications
                   /\ \E u \in users' : u.email = loc[p].email
                   /\ \E v \in email_verifications' : v.token = loc[p].token
          /\ \A p \in Procs, t \in {v.token : v \in email_verifications} :
                /\ VerifyEmailBegin(p, t)
                /\ \E v \in email_verifications :
                      v.token = t /\ v.verified_at # NULL
                => /\ VerificationInvalidOrUsed(res'[p])
                   /\ pc'[p] = "idle"
                   /\ store' = store
          /\ \A p \in Procs, t \in {v.token : v \in email_verifications} :
                /\ VerifyEmailBegin(p, t)
                /\ \E v \in email_verifications :
                      v.token = t /\ v.verified_at = NULL /\ now > v.expires_at
                => /\ VerificationExpired(res'[p])
                   /\ pc'[p] = "idle"
                   /\ store' = store]_vars

\* a token was used, its owner is verified since then, and a second
\* verify_email with the token, made later, was turned down
C20_Witness ==
    \E p \in Procs, v \in email_verifications, u \in users :
       /\ res[p].op = "verify_email" /\ VerificationInvalidOrUsed(res[p])
       /\ res[p].token = v.token
       /\ v.verified_at # NULL /\ v.verified_at < now
       /\ u.email = v.email
       /\ u.email_verified /\ u.email_verified_at = v.verified_at

\* C21: resend_verification_email is answered "Email not found" when no
\* users row has the email and "Email already verified" when the row's
\* email_verified is true, and then creates no email_verifications row;
\* otherwise it adds exactly one row for that email, with verified_at NULL
\* and expires_at 24 hours after its creation, and leaves the rows that were
\* there as they are.
C21_ResendVerification ==
    [][\A p \in Procs, e \in LoginEmails \cup {"b@x.com"} :
          ResendVerification(p, e)
          => IF UserByEmail(e) = {}
             THEN /\ res'[p].status = 400 /\ res'[p].detail = "Email not found"
                  /\ store' = store
             ELSE IF \E u \in users : u.email = e /\ u.email_verified
             THEN /\ res'[p].status = 400
                  /\ res'[p].detail = "Email already verified"
                  /\ store' = store
             ELSE /\ res'[p].status = 200
                  /\ \E v \in email_verifications' \ email_verifications :
                        /\ email_verifications' = email_verifications \cup {v}
                        /\ v.email = e
                        /\ v.verified_at = NULL
                        /\ v.created_at = now
                        /\ v.expires_at = v.created_at + 86400
                  /\ users' = users]_vars

\* a second token was sent to the unverified account some time after the
\* first, which is still there as it was made
C21_Witness ==
    \E p \in Procs, v \in email_verifications, w \in email_verifications :
       /\ res[p].op = "resend_verification" /\ res[p].status = 200
       /\ res[p].token = w.token
       /\ v.email = w.email /\ v.token # w.token
       /\ v.created_at = 0 /\ v.verified_at = NULL
       /\ w.created_at > 0 /\ w.verified_at = NULL
       /\ Mail("verification", w.email, w.token) \in outbox

(***************************************************************************)
(* Session ledger                                                          *)
(***************************************************************************)
\* C22: every sessions row expires the lifetime of the refresh token of its
\* login after its creation (30 days with remember_me, the refresh lifetime
\* of 7 days without), which is the exp claim of that refresh token, and a
\* sessions row is never changed: a step keeps it as it is or deletes it.
C22_SessionExpiry ==
    /\ [](\A s \in sessions :
             /\ s.expires_at - s.created_at \in
                   {30 * 86400, REFRESH_TOKEN_EXPIRE_DAYS * 86400}
             /\ \E t \in issued :
                   /\ t.type = "refresh" /\ t.sub = s.user_id
                   /\ t.iat = s.created_at
                   /\ t.exp = s.expires_at)
    /\ [][/\ \A p \in Procs, e \in LoginEmails, w \in Passwords, r \in BOOLEAN :
                Login(p, e, w, r) /\ res'[p].status = 200
                => \E s \in sessions' \ sessions :
                      /\ sessions' = sessions \cup {s}
                      /\ s.user_id = res'[p].user_id
                      /\ s.created_at = now
                      /\ s.expires_at = s.created_at +
                            (IF r THEN 30 ELSE REFRESH_TOKEN_EXPIRE_DAYS) * 86400
                      /\ s.expires_at = res'[p].refresh_token.exp
          /\ \A s \in sessions :
                s \in sessions' \/ \A x \in sessions' : x.id # s.id]_vars

\* a session of a login with remember_me made some time after the start
C22_Witness ==
    \E s \in sessions, p \in Procs :
       /\ res[p].op = "login" /\ res[p].status = 200 /\ res[p].remember_me
       /\ s.user_id = res[p].user_id
       /\ s.created_at > 0
       /\ s.expires_at = s.created_at + 2592000
       /\ s.expires_at = res[p].refresh_token.exp

(***************************************************************************)
(* Email dispatch                                                          *)
(***************************************************************************)
\* C23: a verification email is handed to the sender only for a users row
\* and an email_verifications row that are committed, and when the sender
\* fails after the commit of register_user the two rows are persisted all
\* the same and stay: no step removes a users or email_verifications row.
C23_DispatchAfterCommit ==
    /\ [](\A m \in outbox :
             m.kind = "verification"
             => /\ \E v \in email_verifications :
                      v.token = m.token /\ v.email = m.to
                /\ \E u \in users : u.email = m.to)
    /\ [][/\ \A p \in Procs :
                RegisterCommitDispatchFailed(p)
                => /\ \E u \in users' \ users : u.email = loc[p].email
                   /\ \E v \in email_verifications' \ email_verifications :
                         v.email = loc[p].email
                   /\ outbox' = outbox
          /\ \A u \in users : \E x \in users' : x.id = u.id /\ x.email = u.email
          /\ \A v \in email_verifications :
                \E x \in email_verifications' :
                   x.token = v.token /\ x.email = v.email]_vars

\* the sender failed for a registration: the request failed, the account
\* and its token are stored and no email for it went out; time has passed
C23_Witness ==
    \E p \in Procs, u \in users, v \in email_verifications :
       /\ res[p].op = "register" /\ res[p].raised = "dispatch"
       /\ u.id = res[p].user_id /\ u.email = res[p].email
       /\ v.token = res[p].token /\ v.email = u.email
       /\ Mail("verification", u.email, v.token) \notin outbox
       /\ now > u.created_at

(***************************************************************************)
(* Release of the database session                                         *)
(***************************************************************************)
\* the awaited commit of a registration comes back: the handler of every
\* request that is in flight goes on
FairCommit == \A p \in Procs : WF_vars(RegisterCommit(p))

\* the requests of the registration handler, which ends in each of the
\* three ways
NextRelease ==
    \/ NextRegisterBegin
    \/ NextRegisterCommit
    \/ NextRegisterCommitDispatchFailed

SpecRelease == InitUTC /\ [][NextRelease]_vars /\ FairCommit

\* C24: every request that got a session from get_db has it closed, exactly
\* once, when its handler ends, whether the handler returned, raised an
\* HTTPException or let another exception through; a session that is open
\* is eventually closed and no request ends with its session still open.
C24_SessionReleased ==
    /\ [](\A p \in Procs : /\ db[p] \in {"open", "closed"}
                           /\ pc[p] = "idle" <=> db[p] = "closed")
    /\ \A p \in Procs : (db[p] = "open") ~> (db[p] = "closed")
    /\ [][\A p \in Procs :
            /\ db[p] = "open" /\ db'[p] # "open"
                  => /\ pc[p] # "idle" /\ pc'[p] = "idle"
                     /\ res'[p].status \in {201, 400, 500}
            /\ pc[p] # "idle" /\ pc'[p] = "idle" => db[p] = "open"]_vars

C24_Witness ==
    \E p, q \in Procs :
        /\ res[p].op = "register" /\ res[p].status = 500 /\ db[p] = "closed"
        /\ res[q].op = "register" /\ res[q].status = 400 /\ db[q] = "closed"
        /\ \E u \in users : u.id = res[p].user_id /\ u.email = res[q].email

(***************************************************************************)
(* Atomic writes                                                           *)
(***************************************************************************)
\* registration and the logins of the account it creates
NextAtomic ==
    \/ NextRegisterBegin
    \/ NextRegisterCommit
    \/ NextLoginAccount

SpecAtomic == InitUTC /\ [][NextAtomic]_vars

\* C25: the writes of a request are atomic. A registration whose commit
\* fails leaves neither its users row nor its verification token, a login
\* whose commit fails leaves neither its sessions row nor last_login_at, and
\* a registration that succeeds adds exactly one users row, unverified, and
\* exactly one verification token for it, unused and expiring 24 hours after
\* its creation.
C25_AtomicWrites ==
    [][/\ \A p \in Procs :
            RegisterCommit(p) =>
               \/ /\ EmailAlreadyRegistered(res'[p])
                  /\ store' = store
               \/ /\ res'[p].status = 201
                  /\ \E u \in users' \ users, v \in email_verifications' \ email_verifications :
                        /\ users' = users \cup {u}
                        /\ email_verifications' = email_verifications \cup {v}
                        /\ u.id = res'[p].user_id /\ u.email = loc[p].email
                        /\ ~u.email_verified /\ u.email_verified_at = NULL
                        /\ \A x \in users' : x.email = u.email => x = u
                        /\ v.email = u.email /\ v.token = res'[p].token
                        /\ v.verified_at = NULL
                        /\ v.expires_at = v.created_at + 24 * 3600
                        /\ v.created_at = u.created_at
                  /\ sessions' = sessions /\ password_resets' = password_resets
       /\ \A p \in Procs, w \in Passwords, r \in BOOLEAN :
            Login(p, "a@x.com", w, r) /\ res'[p].status # 200 => store' = store]_vars

\* a registration that lost the race at its commit next to a login whose
\* commit met the unique constraint of sessions
C25_Witness ==
    \E p, q \in Procs :
       /\ res[p].op = "login" /\ res[p].status = 500
       /\ res[q].op = "register" /\ EmailAlreadyRegistered(res[q])
       /\ res[q].raised = "commit"
       /\ \E u \in users : /\ u.email = res[p].email /\ u.last_login_at # NULL
                           /\ Cardinality({s \in sessions : s.user_id = u.id}) = 1

(***************************************************************************)
(* Protected handlers                                                      *)
(***************************************************************************)
\* C26: logout_user runs only for a bearer token that is an access token the
\* server signed, not yet expired (the current time is before its exp
\* claim), whose sub is the id of a users row; any other POST /logout is
\* answered 401 and deletes no sessions row, and the rows an accepted logout
\* deletes belong to the user the token's sub names.
C26_ProtectedHandler ==
    [][\A p \in Procs, b \in Bearers, a \in BOOLEAN, r \in Bearers \cup {NoJWT} :
          /\ res'[p].access_token = b /\ res'[p].refresh_token = r
          /\ Logout(p, b, a, r)
          => LET valid == /\ b.sig = "server" /\ b.type = "access"
                          /\ now < b.exp
                          /\ UserById(b.sub) # {}
             IN  /\ res'[p].status # 401 => valid
                 /\ ~valid => sessions' = sessions
                 /\ sessions' \subseteq sessions
                 /\ \A s \in sessions \ sessions' : s.user_id = b.sub]_vars

(***************************************************************************)
(* Password after a reset                                                  *)
(***************************************************************************)
\* C27: once reset_password has succeeded for a user, and until the next
\* successful reset, a login with the user's email and the new password
\* succeeds and a login with any other password, the old one included,
\* fails with "Invalid email or password".
C27_LoginAfterReset ==
    [][/\ \A p \in Procs :
            ResetCommit(p) =>
               \A e \in Emails, w \in Passwords :
                  e = loc[p].email =>
                     ((login_error(e, w))' = ""
                         <=> hash_password(w) = loc[p].password_hash)
       /\ \A u \in users, x \in users' :
            u.id = x.id /\ u.password_hash # x.password_hash
               => \E p \in Procs : ResetCommit(p) /\ loc[p].user_id = u.id
       /\ \A p \in Procs, w \in Passwords, r \in BOOLEAN :
            /\ Login(p, "a@x.com", w, r)
            /\ \E t \in password_resets : t.email = "a@x.com" /\ t.used_at # NULL
            => IF login_error("a@x.com", w) = ""
               THEN /\ res'[p].status = 200
                    /\ res'[p].access_token \in issued'
               ELSE /\ res'[p].status = 401
                    /\ res'[p].detail = "Invalid email or password"]_vars

(***************************************************************************)
(* The verified flag                                                       *)
(***************************************************************************)
\* a registered account: verification, new tokens, logins and attempts to
\* register its email again
NextVerified ==
    \/ NextRegisterBegin
    \/ NextVerifyEmailBegin
    \/ NextVerifyEmailCommit
    \/ NextResendVerification
    \/ NextLoginTwo

SpecVerified == InitRegisteredUTC /\ [][NextVerified]_vars

NextTickExpiry ==
    \E d \in {timedelta(0, RESET_EXPIRE_HOURS, 0) + 1,
              timedelta(0, VERIFICATION_EXPIRE_HOURS, 0) + 1} : Tick(d)

\* POST /reset-password with one new password and any token
NextResetBeginToken ==
    \E p \in Procs, t \in {0} \cup {r.token : r \in password_resets} :
       ResetBegin(p, t, "Passw0rd2")

NextUsedExpired ==
    \/ NextResetBeginToken
    \/ NextResetCommit
    \/ NextVerifyEmailBegin
    \/ NextVerifyEmailCommit
    \/ NextTickExpiry

SpecUsedExpired == InitTwoResets /\ [][NextUsedExpired]_vars

\* C29: reset_password and verify_email look for an unused token before they
\* look at the expiry: a token that is used and expired is answered with the
\* invalid-or-used error, and the expired error is given only for a token
\* that is in the table, unused, and past its expiry.
C29_UsedBeforeExpired ==
    [][/\ \A p \in Procs, t \in {0} \cup {r.token : r \in password_resets},
             w \in Passwords :
             ResetBegin(p, t, w) =>
                /\ (\E r \in password_resets :
                       r.token = t /\ r.used_at # NULL /\ now > r.expires_at)
                      => InvalidOrUsedToken(res'[p])
                /\ TokenExpired(res'[p])
                      => \E r \in password_resets :
                            r.token = t /\ r.used_at = NULL /\ now > r.expires_at
       /\ \A p \in Procs, t \in {0} \cup {v.token : v \in email_verifications} :
             VerifyEmailBegin(p, t) =>
                /\ (\E v \in email_verifications :
                       v.token = t /\ v.verified_at # NULL /\ now > v.expires_at)
                      => VerificationInvalidOrUsed(res'[p])
                /\ VerificationExpired(res'[p])
                      => \E v \in email_verifications :
                            v.token = t /\ v.verified_at = NULL /\ now > v.expires_at]_vars

\* past the expiry of every token, a used reset token and a used
\* verification token were both turned down as used
C29_Witness ==
    \E p, q \in Procs, r \in password_resets, v \in email_verifications :
       /\ res[p].op = "reset_password" /\ InvalidOrUsedToken(res[p])
       /\ res[p].token = r.token /\ r.used_at # NULL /\ now > r.expires_at
       /\ res[q].op = "verify_email" /\ VerificationInvalidOrUsed(res[q])
       /\ res[q].token = v.token /\ v.verified_at # NULL /\ now > v.expires_at

(***************************************************************************)
(* Tokens inside their lifetime                                            *)
(***************************************************************************)
\* C30: a token the server issued at iat with expiry exp is accepted by
\* verify_token with its own type, which returns its claims with the sub, at
\* every time from iat up to but not including exp, whatever the offset of
\* the server's local time zone from UTC.
C30_AcceptedInsideLifetime ==
    \A t \in issued :
       t.iat <= now /\ now < t.exp
       => /\ verify_token(t, t.type) # None
          /\ verify_token(t, t.type).sub = t.sub

====
